---- MODULE Spec2Model ----
(***************************************************************************)
(* A model of rmatrix (src/src/main.rs): the RainDrop methods as operators *)
(* over drop records, and the Rain field (Rain::new, Rain::add_new_drop    *)
(* and the frame loop of Rain::draw) as a state machine.                   *)
(*                                                                         *)
(* The specifications share the operators:                                 *)
(*   SpecDrop  one RainDrop in any state a field can hold it in, with its  *)
(*             methods called on it in any order;                          *)
(*   Spec      the field: construction, then the frame loop, one loop      *)
(*             iteration (one drop) per step;                              *)
(*   SpecLive  the field on a terminal that never fails, the program       *)
(*             always taking its next step (SpecLiveAll: on every field    *)
(*             of Spec).                                                   *)
(*                                                                         *)
(* A glyph is left out of every cell: get_char_for_part hashes the drop's  *)
(* memory address, so the character is arbitrary and nothing depends on    *)
(* it.  A cell is its colour; a queued write is its column, row and colour.*)
(***************************************************************************)
EXTENDS Integers, Sequences, FiniteSets, TLC

VARIABLES
  rd,        \* SpecDrop: the RainDrop under call
  rd_h,      \* SpecDrop: the height size() reports to that drop
  call,      \* SpecDrop: the last method called on rd and what it produced
  cfg,       \* Rain: drops_count, drop_length_range, style (never change)
  drops,     \* Rain.drops
  term,      \* the terminal: what size() answers
  pc,        \* where the program is
  idx,       \* the loop variable i of the for loop in Rain::draw
  frame,     \* the terminal operations issued in the current tick, in order
  ioFailed,  \* history: some terminal write or flush has returned Err
  recycled,  \* history: number of swap_remove calls in the current tick
  ghost,     \* history: one entry per drop, moved with it; see fresh_ghost
  processed, \* history: tags of the drops the current tick has gone through
  watch      \* history: "on" while the one drop singled out is not replaced

vars == <<rd, rd_h, call, cfg, drops, term, pc, idx, frame, ioFailed, recycled,
          ghost, processed, watch>>
dropVars == <<rd, rd_h, call>>
fieldVars == <<cfg, drops, term, pc, idx, frame, ioFailed, recycled,
               ghost, processed, watch>>

----------------------------------------------------------------------------
(* Bounds of the model *)

MaxLen == 3        \* lengths and length-range ends go up to here
MaxH == 3          \* viewport heights 0..MaxH
MaxW == 1          \* viewport widths 0..MaxW
MaxExtra == 2      \* SpecDrop: a drop is followed this far below its exhaustion row

(* Program constants *)

U8 == 256          \* u8: length, speed, colour channels
U16 == 65536       \* u16: x, y, terminal rows
YLo == 1           \* y: rng.gen_range(1..8)
YHi == 8
SpeedLo == 1       \* speed: rng.gen_range(1..3)
SpeedHi == 3
ChanHi == 255      \* Rainbow channels: rng.gen_range(0..255)

----------------------------------------------------------------------------
(* Colours: crossterm's Color, as <<"Reset">>, <<"Rgb", r, g, b>> or a named
   colour such as <<"White">>. *)

Reset == <<"Reset">>
White == <<"White">>
Green == <<"Green">>
rgb(r, g, b) == <<"Rgb", r, g, b>>

(* Channel values the model samples colours from: both ends of u8 and values
   that divide unevenly by the lengths. *)
ChannelSamples == {0, 7, 200, U8 - 1}

(* u8 / u16 arithmetic *)
wrapping_add(a, b) == (a + b) % U8
add_u16(a, b) == (a + b) % U16
saturating_sub(a, b) == IF a >= b THEN a - b ELSE 0

----------------------------------------------------------------------------
(* RainDrop::get_parts *)

(* The value of new_r (new_g, new_b) when the cell at offset i is pushed:
   it starts at 0 and wrapping_add(step) runs after each push. *)
RECURSIVE gradient_channel_postinc(_, _)
gradient_channel_postinc(i, step) ==
  IF i = 0 THEN step % U8
  ELSE wrapping_add(gradient_channel_postinc(i - 1, step), step)

(* The same running sum with the step added twice per cell: it passes the
   head channel and wraps. *)
RECURSIVE gradient_channel_double_step(_, _)
gradient_channel_double_step(i, step) ==
  IF i = 0 THEN 0
  ELSE wrapping_add(gradient_channel_double_step(i - 1, step), 2 * step)

RECURSIVE gradient_channel(_, _)
gradient_channel(i, step) ==
  IF i = 0 THEN 0 ELSE wrapping_add(gradient_channel(i - 1, step), step)

(* r / self.length panics when length = 0 *)
get_parts_panics(d) == d.color[1] = "Rgb" /\ d.length = 0

body_parts(d) ==
  CASE d.color[1] = "Reset" -> << >>
    [] d.color[1] = "Rgb" ->
         [k \in 1..d.length |->
            rgb(gradient_channel(k - 1, d.color[2] \div d.length),
                gradient_channel(k - 1, d.color[3] \div d.length),
                gradient_channel(k - 1, d.color[4] \div d.length))]
    [] OTHER -> [k \in 1..d.length |-> d.color]

get_parts_no_spark(d) == body_parts(d)

get_parts(d) == Append(body_parts(d), White)

----------------------------------------------------------------------------
(* RainDrop::draw, clear_tail, is_end, fall *)

in_viewport_inclusive(row, buffer_h) == row \in 0..buffer_h

in_viewport(row, buffer_h) == row \in 0..(buffer_h - 1)

(* the row a cell at offset i is filtered on and moved to *)
part_row(d, i) == saturating_sub(add_u16(d.y, i), d.length)

(* The writes draw queues when no write fails, in order: one per part that
   passes the filter (MoveTo, SetForegroundColor, Print). *)
draw_writes(d, buffer_h) ==
  LET parts == get_parts(d)
      all == [k \in 1..Len(parts) |->
                [kind |-> "glyph", x |-> d.x, row |-> part_row(d, k - 1),
                 i |-> k - 1, color |-> parts[k]]]
      keep(w) == in_viewport(w.row, buffer_h)
  IN SelectSeq(all, keep)

(* The writes clear_tail queues when no write fails: MoveTo, Print(" ") *)
clear_tail_writes(d) ==
  [k \in 1..d.speed |->
     [kind |-> "blank", x |-> d.x,
      row |-> saturating_sub(d.y, d.length + (k - 1)),
      i |-> k - 1, color |-> Reset]]

(* exhaustion noticed one row late *)
is_end_one_row_late(d, buffer_h) == saturating_sub(d.y, d.length) > buffer_h + 1

(* exhaustion judged on the head alone, the length forgotten *)
is_end_head_only(d, buffer_h) == d.y > buffer_h

is_end_ge(d, buffer_h) == saturating_sub(d.y, d.length) >= buffer_h

is_end(d, buffer_h) == saturating_sub(d.y, d.length) > buffer_h

(* the drop advanced twice in one call *)
fall_twice(d) == [d EXCEPT !.y = add_u16(add_u16(d.y, d.speed), d.speed)]

(* one row per tick, whatever the speed *)
fall_one_row(d) == [d EXCEPT !.y = add_u16(d.y, 1)]

fall(d) == [d EXCEPT !.y = add_u16(d.y, d.speed)]

(* RainDrop::new: y and speed are drawn by the rng *)
RainDrop_new(length, color, x) ==
  {[length |-> length, color |-> color, x |-> x, y |-> y, speed |-> s] :
     y \in YLo..(YHi - 1), s \in SpeedLo..(SpeedHi - 1)}

(* A write sequence cut at a failing write: the first n writes were queued,
   write n + 1 returned Err.  n = Len(ws) means every write succeeded. *)
queued(ws, n) == SubSeq(ws, 1, n)

----------------------------------------------------------------------------
(* SpecDrop: one RainDrop, its methods called in any order.               *)

DropColors ==
  {Reset, White, Green} \cup
  {rgb(r, g, b) : r \in ChannelSamples, g \in ChannelSamples, b \in ChannelSamples}

MaxY == MaxLen + MaxH + MaxExtra

NoCall == [op |-> "none", panic |-> FALSE, parts |-> << >>, writes |-> << >>,
           end |-> FALSE]

(* The field's variables are not used by SpecDrop *)
FieldIdle ==
  /\ cfg = [drops_count |-> 0, lo |-> 0, hi |-> 0, style |-> <<"Rainbow">>]
  /\ drops = << >>
  /\ term = [ok |-> FALSE, w |-> 0, h |-> 0]
  /\ pc = "idle"
  /\ idx = 0
  /\ frame = << >>
  /\ ioFailed = FALSE
  /\ recycled = 0
  /\ ghost = << >>
  /\ processed = << >>
  /\ watch = "off"

InitDrop ==
  /\ rd \in [length : 0..MaxLen, color : DropColors,
             speed : SpeedLo..(SpeedHi - 1), y : YLo..MaxY, x : 0..(MaxW - 1)]
  /\ rd_h \in 0..MaxH
  /\ call = NoCall
  /\ FieldIdle

(* self.get_parts() *)
CallGetParts ==
  /\ call' = IF get_parts_panics(rd)
             THEN [NoCall EXCEPT !.op = "get_parts", !.panic = TRUE]
             ELSE [NoCall EXCEPT !.op = "get_parts", !.parts = get_parts(rd)]
  /\ UNCHANGED <<rd, rd_h>>
  /\ UNCHANGED fieldVars

(* self.draw(), size() answering (_, rd_h) and every write succeeding *)
CallDraw ==
  /\ call' = IF get_parts_panics(rd)
             THEN [NoCall EXCEPT !.op = "draw", !.panic = TRUE]
             ELSE [NoCall EXCEPT !.op = "draw", !.writes = draw_writes(rd, rd_h)]
  /\ UNCHANGED <<rd, rd_h>>
  /\ UNCHANGED fieldVars

(* self.clear_tail(), every write succeeding *)
CallClearTail ==
  /\ call' = [NoCall EXCEPT !.op = "clear_tail", !.writes = clear_tail_writes(rd)]
  /\ UNCHANGED <<rd, rd_h>>
  /\ UNCHANGED fieldVars

(* self.is_end(), size() answering (_, rd_h) *)
CallIsEnd ==
  /\ call' = [NoCall EXCEPT !.op = "is_end", !.end = is_end(rd, rd_h)]
  /\ UNCHANGED <<rd, rd_h>>
  /\ UNCHANGED fieldVars

(* self.fall(); the model follows a drop down to row MaxY *)
CallFall ==
  /\ rd.y + rd.speed <= MaxY
  /\ rd' = fall(rd)
  /\ call' = [NoCall EXCEPT !.op = "fall"]
  /\ UNCHANGED rd_h
  /\ UNCHANGED fieldVars

NextDrop == CallGetParts \/ CallDraw \/ CallClearTail \/ CallIsEnd \/ CallFall

SpecDrop == InitDrop /\ [][NextDrop]_vars

----------------------------------------------------------------------------
(* The Rain field                                                          *)

(* What one call of a RainDrop method on the terminal can come to.  size()
   fails when the terminal cannot be queried; any queue! may return Err, and
   then the writes before it are queued and the method returns. *)
drop_draw(d, t) ==
  IF ~t.ok THEN {[res |-> "err_viewport", writes |-> << >>]}
  ELSE IF get_parts_panics(d) THEN {[res |-> "panic", writes |-> << >>]}
  ELSE LET ws == draw_writes(d, t.h)
       IN {[res |-> IF n = Len(ws) THEN "ok" ELSE "err_io",
            writes |-> queued(ws, n)] : n \in 0..Len(ws)}

drop_clear_tail(d) ==
  LET ws == clear_tail_writes(d)
  IN {[res |-> IF n = Len(ws) THEN "ok" ELSE "err_io",
       writes |-> queued(ws, n)] : n \in 0..Len(ws)}

(* Vec::swap_remove(k), k counted from 1 *)
swap_remove(ds, k) ==
  [j \in 1..(Len(ds) - 1) |-> IF j = k THEN ds[Len(ds)] ELSE ds[j]]

(* The colours a new drop can get under a style *)
RainbowColors == {rgb(0, 0, 0), rgb(ChanHi - 1, 200, 7)}

style_colors(style) ==
  IF style[1] = "Solid" THEN {style[2]} ELSE RainbowColors

(* Rain::add_new_drop: every way it can end, as [res, drops] *)
add_new_drop_no_push(ds, c, t) ==
  IF ~t.ok THEN {[res |-> "err_viewport", drops |-> ds]}
  ELSE {[res |-> "ok", drops |-> ds]}

add_new_drop_default_size(ds, c, t) ==
  IF c.lo >= c.hi THEN {[res |-> "panic", drops |-> ds]}
  ELSE {[res |-> "ok", drops |-> Append(ds, nd)] :
          nd \in UNION {RainDrop_new(len, col, 0) :
                          len \in c.lo..(c.hi - 1), col \in style_colors(c.style)}}

(* the column drawn from 0..=buffer_w *)
add_new_drop_column_inclusive(ds, c, t) ==
  IF ~t.ok THEN {[res |-> "err_viewport", drops |-> ds]}
  ELSE IF c.lo >= c.hi \/ t.w = 0 THEN {[res |-> "panic", drops |-> ds]}
  ELSE {[res |-> "ok", drops |-> Append(ds, nd)] :
          nd \in UNION {RainDrop_new(len, col, x) :
                          len \in c.lo..(c.hi - 1), x \in 0..t.w,
                          col \in style_colors(c.style)}}

add_new_drop(ds, c, t) ==
  IF ~t.ok THEN {[res |-> "err_viewport", drops |-> ds]}
  ELSE IF c.lo >= c.hi \/ t.w = 0 THEN {[res |-> "panic", drops |-> ds]}
  ELSE {[res |-> "ok", drops |-> Append(ds, nd)] :
          nd \in UNION {RainDrop_new(len, col, x) :
                          len \in c.lo..(c.hi - 1), x \in 0..(t.w - 1),
                          col \in style_colors(c.style)}}

(* Rain::new: n calls of add_new_drop left, the first failure returned *)
RECURSIVE new_loop(_, _, _, _)
new_loop(n, ds, c, t) ==
  IF n = 0 THEN {[res |-> "ok", drops |-> ds]}
  ELSE UNION {IF o.res = "ok" THEN new_loop(n - 1, o.drops, c, t) ELSE {o} :
                o \in add_new_drop(ds, c, t)}

Rain_new(c, t) == new_loop(c.drops_count, << >>, c, t)

(* The order in which one loop iteration queues its writes: self.drops[i].draw()
   first, self.drops[i].clear_tail() after fall() *)
iteration_writes_clear_first(draw_ws, clear_ws) == clear_ws \o draw_ws

iteration_writes(draw_ws, clear_ws) == draw_ws \o clear_ws

(* The writes of loop iteration i, as frame entries *)
at_index(i, ws) == [k \in 1..Len(ws) |-> [at |-> i, w |-> ws[k]]]

FlushOp == [kind |-> "flush", x |-> 0, row |-> 0, i |-> 0, color |-> Reset]

(* Configurations the entry point may construct the field with.  A field of
   at most one drop is run with every length range, style and terminal of the
   model; a field of two drops (a crowd) with drops of length 1 in one colour
   and one column: the queue of a tick holds the writes of every drop the tick
   went through, so the states multiply with each drop added. *)
LengthRanges == {<<lo, hi>> : lo \in {0, 1}, hi \in {1, MaxLen}}

Styles == {<<"Solid", Green>>, <<"Solid", Reset>>, <<"Rainbow">>}

Terminals ==
  {[ok |-> FALSE, w |-> 0, h |-> 0]} \cup
  [ok : {TRUE}, w : 0..MaxW, h : 0..MaxH]

SoloCounts == {0, 1}

CrowdCounts == {2}

SoloConfigs ==
  {[drops_count |-> n, lo |-> r[1], hi |-> r[2], style |-> st] :
     n \in SoloCounts, r \in LengthRanges, st \in Styles}

CrowdConfigs ==
  {[drops_count |-> n, lo |-> 1, hi |-> 2, style |-> <<"Solid", Green>>] :
     n \in CrowdCounts}

CrowdTerminals == [ok : {TRUE}, w : {1}, h : {1, 2}]

DropIdle ==
  /\ rd = [length |-> 0, color |-> Reset, speed |-> SpeedLo, y |-> YLo, x |-> 0]
  /\ rd_h = 0
  /\ call = NoCall

(* What is recorded about a drop, beside it: tag names the drop within the
   current tick (its index at the start of the tick, or a number above the
   drop count for a drop made during the tick); y0 is its y at the start of
   the tick, or at its creation when that was later; moved tells whether fall
   has been called on it since it was made; watched marks the one drop a run
   may single out when it is made, to follow it until it is replaced. *)
fresh_ghost(tag, y, w) == [tag |-> tag, y0 |-> y, moved |-> FALSE, watched |-> w]

(* The records at the start of a tick *)
retag(gs, ds) == [j \in 1..Len(gs) |-> [gs[j] EXCEPT !.tag = j, !.y0 = ds[j].y]]

(* Whether the drop being made may be singled out: when no drop is *)
may_watch == IF watch = "idle" THEN BOOLEAN ELSE {FALSE}

Start(w) ==
  /\ \/ cfg \in SoloConfigs /\ term \in Terminals
     \/ cfg \in CrowdConfigs /\ term \in CrowdTerminals
  /\ drops = << >>
  /\ pc = "start"
  /\ idx = 0
  /\ frame = << >>
  /\ ioFailed = FALSE
  /\ recycled = 0
  /\ ghost = << >>
  /\ processed = << >>
  /\ watch = w
  /\ DropIdle

Init == Start("off")

(* An Err or a panic ends the program: Rain::draw returns to main, which
   returns, and the field is dropped. *)
Abort(how, failed) ==
  /\ pc' = how
  /\ ioFailed' = failed
  /\ drops' = << >>
  /\ idx' = 0
  /\ frame' = << >>
  /\ recycled' = 0
  /\ ghost' = << >>
  /\ processed' = << >>
  /\ UNCHANGED watch

(* Rain::new(drops_count, drop_length, style, frame_delay) *)
RainNew ==
  /\ pc = "start"
  /\ \E o \in Rain_new(cfg, term) :
       IF o.res = "ok"
       THEN /\ pc' = "constructed"
            /\ drops' = o.drops
            /\ \E wj \in (IF watch = "idle" THEN 0..Len(o.drops) ELSE {0}) :
                 /\ ghost' = [j \in 1..Len(o.drops) |->
                                fresh_ghost(j, o.drops[j].y, j = wj)]
                 /\ watch' = IF wj > 0 THEN "on" ELSE watch
            /\ UNCHANGED <<idx, frame, ioFailed, recycled, processed>>
       ELSE Abort(o.res, ioFailed)
  /\ UNCHANGED <<cfg, term>>
  /\ UNCHANGED dropVars

(* The model lets one terminal write fail in a run: after the first failure
   every later write succeeds. *)
may_fail(outcomes) == {o \in outcomes : ioFailed => o.res # "err_io"}

(* Rain::draw up to the loop: execute!(Clear, Hide, MoveTo(0, 0))? *)
DrawBegin ==
  /\ pc = "constructed"
  /\ \E fails \in {FALSE, ~ioFailed} :
       IF fails THEN Abort("err_io", TRUE)
       ELSE /\ pc' = "loop"
            /\ idx' = 0
            /\ frame' = << >>
            /\ recycled' = 0
            /\ UNCHANGED <<drops, ioFailed, ghost, processed, watch>>
  /\ UNCHANGED <<cfg, term>>
  /\ UNCHANGED dropVars

(* The outcomes of a write sequence an iteration reckons with: all that
   may_fail allows, or only the one without a failing write *)
reckoned(outcomes, faulty) ==
  {o \in may_fail(outcomes) : faulty \/ o.res # "err_io"}

(* One iteration of `for i in 0..self.drops.len()`, i = idx.  The terminal
   may stop answering size() before any of the iteration's three queries
   (lose, one of loses); once lost it stays lost.  faulty: whether a write of
   the iteration may fail. *)
Iteration(loses, faulty) ==
  /\ pc = "loop"
  /\ idx < Len(drops)
  /\ \E lose \in loses :
     LET k == idx + 1
         t_draw == [term EXCEPT !.ok = term.ok /\ lose # "draw"]
         t_end == [term EXCEPT !.ok = t_draw.ok /\ lose # "is_end"]
         t_add == [term EXCEPT !.ok = t_end.ok /\ lose # "add"]
     IN \E dr \in reckoned(drop_draw(drops[k], t_draw), faulty) :
        IF dr.res # "ok"
        THEN \* self.drops[i].draw()? returns the error
             /\ term' = t_draw
             /\ Abort(dr.res, ioFailed \/ dr.res = "err_io")
        ELSE
          LET fallen == fall(drops[k])
              ds1 == [drops EXCEPT ![k] = fallen]
          IN \E ct \in reckoned(drop_clear_tail(fallen), faulty) :
             \* the Result of clear_tail() is dropped
             LET fr == frame \o at_index(idx, iteration_writes(dr.writes, ct.writes))
                 io == (ioFailed \/ ct.res = "err_io")
             IN IF ~t_end.ok
                THEN \* is_end()? returns the error
                     /\ term' = t_end
                     /\ Abort("err_viewport", io)
                ELSE IF ~is_end(fallen, t_end.h)
                THEN /\ pc' = "loop"
                     /\ term' = t_end
                     /\ drops' = ds1
                     /\ idx' = idx + 1
                     /\ frame' = fr
                     /\ ioFailed' = io
                     /\ ghost' = [ghost EXCEPT ![k].moved = TRUE]
                     /\ processed' = Append(processed, ghost[k].tag)
                     /\ UNCHANGED <<recycled, watch>>
                ELSE \E o \in add_new_drop(swap_remove(ds1, k), cfg, t_add) :
                     /\ term' = t_add
                     /\ IF o.res # "ok"
                        THEN \* add_new_drop()? returns the error
                             Abort(o.res, io)
                        ELSE /\ pc' = "loop"
                             /\ drops' = o.drops
                             /\ idx' = idx + 1
                             /\ frame' = fr
                             /\ ioFailed' = io
                             /\ recycled' = recycled + 1
                             /\ processed' = Append(processed, ghost[k].tag)
                             /\ \E w \in may_watch :
                                  /\ ghost' =
                                       Append(swap_remove(ghost, k),
                                              fresh_ghost(Len(drops) + recycled + 1,
                                                          o.drops[Len(o.drops)].y, w))
                                  /\ watch' = IF ghost[k].watched THEN "idle"
                                              ELSE IF w THEN "on" ELSE watch
  /\ UNCHANGED cfg
  /\ UNCHANGED dropVars

Step == Iteration({"never", "draw", "is_end", "add"}, TRUE)

(* stdout.flush()? after the for loop *)
Flush ==
  /\ pc = "loop"
  /\ idx = Len(drops)
  /\ \E fails \in {FALSE, ~ioFailed} :
       IF fails THEN Abort("err_io", TRUE)
       ELSE /\ pc' = "sleep"
            /\ frame' = Append(frame, [at |-> idx, w |-> FlushOp])
            /\ UNCHANGED <<drops, idx, ioFailed, recycled, ghost, processed, watch>>
  /\ UNCHANGED <<cfg, term>>
  /\ UNCHANGED dropVars

(* sleep(self.frame_delay), and the loop comes round to the next tick *)
Sleep ==
  /\ pc = "sleep"
  /\ pc' = "loop"
  /\ idx' = 0
  /\ frame' = << >>
  /\ recycled' = 0
  /\ ghost' = retag(ghost, drops)
  /\ processed' = << >>
  /\ UNCHANGED <<cfg, drops, term, ioFailed, watch>>
  /\ UNCHANGED dropVars

Next == RainNew \/ DrawBegin \/ Step \/ Flush \/ Sleep

Spec == Init /\ [][Next]_vars

----------------------------------------------------------------------------
(* SpecLive, SpecLiveAll: the field run with a constant viewport and without
   I/O or viewport errors, one drop singled out at a time.  The program is
   one thread that takes its next step whenever it has one: sleep returns,
   the writes return.  SpecLive runs the fields of one drop on the crowd's
   terminals; SpecLiveAll every field and terminal of Spec.                *)

NoError ==
  /\ pc' \notin {"err_io", "err_viewport"}
  /\ ~ioFailed'
  /\ term' = term

InitLiveAll == Start("idle")

InitLive ==
  /\ InitLiveAll
  /\ cfg.drops_count = 1
  /\ term \in CrowdTerminals

(* an iteration in which the terminal keeps answering and no write fails *)
StepLive == Iteration({"never"}, FALSE)

NextLive ==
  \/ RainNew /\ NoError
  \/ DrawBegin /\ NoError
  \/ StepLive
  \/ Flush /\ NoError
  \/ Sleep /\ NoError

SpecLive == InitLive /\ [][NextLive]_vars /\ WF_vars(NextLive)

SpecLiveAll == InitLiveAll /\ [][NextLive]_vars /\ WF_vars(NextLive)

----------------------------------------------------------------------------
(* Claims about one drop (SpecDrop)                                        *)

IsRgb(c) == c[1] = "Rgb"
Last(s) == s[Len(s)]

(* C2, as stated: for every drop, whatever its colour variant and length,
   get_parts returns exactly length + 1 entries and the last one is white. *)
C2_AllVariantsLengthPlusOne ==
  call.op = "get_parts" =>
    /\ ~call.panic
    /\ Len(call.parts) = rd.length + 1
    /\ Last(call.parts) = White

(* C2, amended: get_parts returns exactly length + 1 entries for a named
   colour of any length and for an RGB colour with length >= 1, exactly one
   entry for the reset colour whatever the length, and does not return for an
   RGB colour with length 0 (division by zero); whenever it returns, the last
   entry is white. *)
C2_PartsCount ==
  call.op = "get_parts" =>
    /\ call.panic <=> (IsRgb(rd.color) /\ rd.length = 0)
    /\ ~call.panic =>
         /\ Len(call.parts) = (IF rd.color = Reset THEN 1 ELSE rd.length + 1)
         /\ Last(call.parts) = White

C2_Witness ==
  /\ call.op = "get_parts"
  /\ rd.color = Reset
  /\ rd.length = MaxLen
  /\ call.parts = <<White>>

(* C3: for an RGB drop with length L >= 1 and head colour (r, g, b), the cell
   at offset 0 is (0,0,0) and each channel of the cell at offset i in 0..L-1
   is (i * (channel / L)) mod 256, with integer division. *)
C3_Gradient ==
  (call.op = "get_parts" /\ IsRgb(rd.color) /\ rd.length >= 1) =>
    /\ call.parts[1] = rgb(0, 0, 0)
    /\ \A i \in 0..(rd.length - 1) :
         call.parts[i + 1] = rgb((i * (rd.color[2] \div rd.length)) % 256,
                                 (i * (rd.color[3] \div rd.length)) % 256,
                                 (i * (rd.color[4] \div rd.length)) % 256)

C3_Witness ==
  /\ call.op = "get_parts"
  /\ rd.color = rgb(200, 7, 255)
  /\ rd.length = 3
  /\ call.parts[3] = rgb(132, 4, 170)

(* C4: is_end returns true exactly when position - length > h; false at the
   boundary position = length + h and below, true from length + h + 1 on. *)
C4_IsEndExact ==
  call.op = "is_end" => (call.end <=> (rd.y - rd.length > rd_h))

C4_Witness ==
  /\ call.op = "is_end"
  /\ rd.y = rd.length + rd_h + 1
  /\ call.end

(* C5: draw never queues a write whose row is outside [0, viewportHeight),
   and a drop whose whole extent [position - length, position] lies below the
   viewport queues no write. *)
C5_DrawInsideViewport ==
  (call.op = "draw" /\ ~call.panic) =>
    /\ \A k \in 1..Len(call.writes) :
         call.writes[k].row >= 0 /\ call.writes[k].row < rd_h
    /\ (rd.y - rd.length >= rd_h) => call.writes = << >>

C5_Witness ==
  /\ call.op = "draw"
  /\ ~call.panic
  /\ rd_h >= 1
  /\ rd.length >= 1
  /\ rd.y - rd.length >= rd_h + 1
  /\ call.writes = << >>

(* C6, as stated: draw skips every cell whose logical row
   position + offset - length lies outside the viewport; a cell with a
   negative logical row produces no write. *)
C6_NoWriteAboveViewport ==
  (call.op = "draw" /\ ~call.panic) =>
    \A k \in 1..Len(call.writes) :
      LET logical == rd.y + call.writes[k].i - rd.length
      IN logical >= 0 /\ logical < rd_h

(* C19: the wrapping addition of the RGB gradient never wraps: for a head
   colour (r, g, b) and a length L >= 1, each channel of the cell at offset i
   in 0..L-1 is at most the head colour's channel and equals i * (channel / L)
   computed in unbounded integers. *)
C19_GradientNeverWraps ==
  (call.op = "get_parts" /\ IsRgb(rd.color) /\ rd.length >= 1) =>
    \A i \in 0..(rd.length - 1) : \A c \in 2..4 :
      /\ call.parts[i + 1][c] <= rd.color[c]
      /\ call.parts[i + 1][c] = i * (rd.color[c] \div rd.length)

C19_Witness ==
  /\ call.op = "get_parts"
  /\ rd.color = rgb(U8 - 1, U8 - 1, 200)
  /\ rd.length = MaxLen
  /\ call.parts[MaxLen][2] = (MaxLen - 1) * ((U8 - 1) \div MaxLen)
  /\ call.parts[MaxLen][2] > (U8 - 1) \div 2

----------------------------------------------------------------------------
(* Claims about the field (Spec)                                           *)

Glyphs(fr) == {k \in 1..Len(fr) : fr[k].w.kind = "glyph"}
Blanks(fr) == {k \in 1..Len(fr) : fr[k].w.kind = "blank"}
Flushes(fr) == {k \in 1..Len(fr) : fr[k].w.kind = "flush"}

(* C1: after Rain::new succeeds and after every completed tick the number of
   drops equals drops_count, also when several drops are exhausted in one
   tick. *)
C1_Population ==
  pc \in {"constructed", "sleep"} => Len(drops) = cfg.drops_count

C1_Witness ==
  /\ pc = "sleep"
  /\ recycled >= 2
  /\ Len(drops) = 2

(* C7, as stated: for a single drop, after each tick (draw, fall, clear_tail)
   every row the drop wrote a glyph to that is no longer inside its extent
   [position - length, position] has been overwritten with a blank.  Stated
   of a green drop of length >= 1, in a tick in which no write failed and the
   drop was not replaced. *)
C7_NoStaleGlyph ==
  (/\ pc = "sleep" /\ cfg.drops_count = 1 /\ recycled = 0 /\ ~ioFailed
   /\ drops[1].color = Green /\ drops[1].length >= 1) =>
    \A g \in Glyphs(frame) :
      \/ /\ frame[g].w.row >= drops[1].y - drops[1].length
         /\ frame[g].w.row <= drops[1].y
      \/ \E b \in Blanks(frame) :
           /\ b > g
           /\ frame[b].w.x = frame[g].w.x
           /\ frame[b].w.row = frame[g].w.row

(* C8, as stated: within one tick the draws of all drops come first, then the
   tail-clears of all drops, then exactly one flush. *)
C8_DrawsThenClearsThenFlush ==
  pc = "sleep" =>
    /\ \A b \in Blanks(frame) : \A g \in Glyphs(frame) : g < b
    /\ Flushes(frame) = {Len(frame)}

(* C8, amended: within one tick the writes are grouped by drop, in collection
   order; inside a drop's group its draw writes come before its tail-clear
   writes, so a drop's tail-clear is queued before the draw of every later
   drop; a completed tick ends with exactly one flush, after all the groups. *)
C8_PerDropThenFlush ==
  pc \in {"loop", "sleep"} =>
    /\ \A a \in 1..Len(frame) : \A b \in 1..Len(frame) :
         a < b =>
           /\ frame[a].at <= frame[b].at
           /\ (frame[a].at = frame[b].at /\ frame[b].w.kind = "glyph")
                => frame[a].w.kind = "glyph"
    /\ \A k \in Glyphs(frame) \cup Blanks(frame) : frame[k].at < idx
    /\ Flushes(frame) = (IF pc = "sleep" THEN {Len(frame)} ELSE {})

C8_Witness ==
  /\ pc = "sleep"
  /\ \E b \in Blanks(frame) : \E g \in Glyphs(frame) :
       /\ b < g
       /\ frame[b].at = 0
       /\ frame[g].at = 1
  /\ \E g \in Glyphs(frame) : \E b \in Blanks(frame) :
       g < b /\ frame[g].at = frame[b].at

(* C9, as stated: a failing terminal write or flush aborts the run; no failed
   write is ignored with the frame loop continuing. *)
C9_FailedWriteStopsLoop ==
  ioFailed => pc \notin {"loop", "sleep"}

(* C10, as stated: Rain::new fails whenever the terminal size cannot be
   queried, for every drops_count including 0; it returns no field then. *)
C10_NewFailsWithoutSize ==
  ~term.ok => pc \in {"start", "err_viewport"}

(* C10, amended: Rain::new fails with the viewport error whenever the terminal
   size cannot be queried and drops_count >= 1; with drops_count = 0 it makes
   no size query and returns an empty field. *)
C10_NewFailsWithoutSizeUnlessEmpty ==
  ~term.ok =>
    IF cfg.drops_count >= 1
    THEN pc \in {"start", "err_viewport"}
    ELSE pc \in {"start", "constructed", "loop", "sleep", "err_io"}
         /\ drops = << >>

C10_Witness ==
  /\ pc = "err_viewport"
  /\ term = [ok |-> FALSE, w |-> 0, h |-> 0]
  /\ cfg.drops_count = 1

(* C12, as stated: in every reachable state of the field, whatever length
   range Rain::new was given, every drop has length >= 1 and speed >= 1. *)
C12_LengthAndSpeedPositive ==
  pc \in {"constructed", "loop", "sleep"} =>
    \A j \in 1..Len(drops) : drops[j].length >= 1 /\ drops[j].speed >= 1

(* C14: with a viewport of constant width W >= 1, every drop in the field,
   initial or replacement, has a column in 0..W-1 and a length in the
   half-open range [lo, hi) the field was constructed with; under the Solid
   style its colour is the colour given. *)
C14_DropsWithinConfiguration ==
  pc \in {"constructed", "loop", "sleep"} =>
    \A j \in 1..Len(drops) :
      /\ 0 <= drops[j].x /\ drops[j].x < term.w
      /\ cfg.lo <= drops[j].length /\ drops[j].length < cfg.hi
      /\ cfg.style[1] = "Solid" => drops[j].color = cfg.style[2]

C14_Witness ==
  /\ pc = "sleep"
  /\ recycled >= 1
  /\ cfg.style = <<"Solid", Green>>
  /\ cfg.hi = MaxLen
  /\ Last(drops).length = MaxLen - 1
  /\ Last(drops).x = term.w - 1
  /\ Last(drops).color = Green

Tags(gs) == {gs[j].tag : j \in 1..Len(gs)}

(* C11: a drop leaves the collection in a loop iteration exactly when, after
   being advanced in it, its position - length exceeds the viewport height,
   which no earlier advance of that drop had made it do; the removal comes with exactly one newly constructed drop appended, the
   other drops staying; no other step of a running field removes or adds a
   drop. *)
C11_RecycledExactlyAtExhaustion ==
  [][(pc \in {"loop", "sleep"} /\ pc' \in {"loop", "sleep"}) =>
       IF pc = "loop" /\ idx' = idx + 1
       THEN LET d == drops[idx + 1]
                me == ghost[idx + 1].tag
                removed == me \notin Tags(ghost')
                born == Tags(ghost') \ Tags(ghost)
            IN /\ removed <=> (d.y + d.speed - d.length > term.h)
               /\ ghost[idx + 1].moved => d.y - d.length <= term.h
               /\ Len(drops') = Len(drops)
               /\ Tags(ghost) \ Tags(ghost') = (IF removed THEN {me} ELSE {})
               /\ Cardinality(born) = (IF removed THEN 1 ELSE 0)
               /\ removed =>
                    /\ ghost'[Len(drops')].tag \in born
                    /\ ~ghost'[Len(drops')].moved
                    /\ drops'[Len(drops')].y \in YLo..(YHi - 1)
                    /\ recycled' = recycled + 1
       ELSE drops' = drops]_vars

C11_Witness ==
  /\ pc = "loop"
  /\ Len(drops) = 2
  /\ idx = 1
  /\ recycled = 1
  /\ ghost[1].tag = 2
  /\ ghost[2].tag = 3
  /\ ~ghost[2].moved

(* C13: from its creation to its removal a drop changes in its position only:
   the loop iteration that processes it adds exactly its speed to y, and no
   other step changes y; column, length, speed and colour stay as they were
   made, also when swap_remove moves the drop to another index. *)
C13_OnlyPositionChangesBySpeed ==
  [][(pc \in {"constructed", "loop", "sleep"} /\ pc' \in {"loop", "sleep"}) =>
       IF pc = "loop" /\ idx' = idx + 1
       THEN \A j \in 1..Len(drops) : \A j2 \in 1..Len(drops') :
              ghost[j].tag = ghost'[j2].tag =>
                /\ drops'[j2].x = drops[j].x
                /\ drops'[j2].length = drops[j].length
                /\ drops'[j2].speed = drops[j].speed
                /\ drops'[j2].color = drops[j].color
                /\ drops'[j2].y = (IF j = idx + 1
                                   THEN drops[j].y + drops[j].speed
                                   ELSE drops[j].y)
       ELSE drops' = drops]_vars

C13_Witness ==
  /\ pc = "sleep"
  /\ Len(drops) = 2
  /\ recycled = 1
  /\ ghost[1].tag = 2
  /\ drops[1].y = ghost[1].y0
  /\ ghost[2].tag = 3
  /\ drops[2].speed = SpeedHi - 1
  /\ drops[2].y = ghost[2].y0 + drops[2].speed

Times(t, log) == Cardinality({k \in 1..Len(log) : log[k] = t})

(* C15, as stated: in every tick each drop that is in the collection when the
   tick starts is drawn, advanced and tail-cleared exactly once, also in a
   tick in which other drops are exhausted and swap-removed. *)
C15_EveryDropProcessedOncePerTick ==
  pc = "sleep" => \A t \in 1..Len(drops) : Times(t, processed) = 1

(* C16: within one tick no drop is advanced more than once, whatever is
   swap-removed and replaced meanwhile: no drop is gone through twice, and a
   drop's position is its position at the start of the tick (or at its
   creation in the tick) plus at most one speed. *)
C16_NoDropAdvancedTwicePerTick ==
  pc \in {"loop", "sleep"} =>
    /\ \A t \in Tags(ghost) \cup (1..Len(drops)) : Times(t, processed) <= 1
    /\ \A j \in 1..Len(drops) :
         drops[j].y - ghost[j].y0 \in {0, drops[j].speed}

C16_Witness ==
  /\ pc = "sleep"
  /\ recycled = 2
  /\ processed = <<1, 3>>
  /\ ghost[1].tag = 2
  /\ ghost[2].tag = 4

(* C17, as stated: at the end of every tick no drop in the collection is
   exhausted: every drop has position - length <= viewport height, for every
   viewport height and length range, replacement drops included.  Stated of
   fields whose drops have length >= 1, on a viewport of height >= 1. *)
C17_NoExhaustedDropBetweenTicks ==
  (pc = "sleep" /\ cfg.lo >= 1 /\ term.h >= 1) =>
    \A j \in 1..Len(drops) : drops[j].y - drops[j].length <= term.h

(* C17, amended: every drop in the collection that has been advanced at least
   once has position - length <= viewport height; a drop not advanced yet is
   where RainDrop::new put it, at a position in 1..7, whatever the height. *)
C17_NoAdvancedDropExhausted ==
  pc \in {"constructed", "loop", "sleep"} =>
    \A j \in 1..Len(drops) :
      IF ghost[j].moved
      THEN drops[j].y - drops[j].length <= term.h
      ELSE drops[j].y \in YLo..(YHi - 1)

C17_Witness ==
  /\ pc = "sleep"
  /\ recycled >= 1
  /\ \E j \in 1..Len(drops) :
       /\ ~ghost[j].moved
       /\ drops[j].y - drops[j].length > term.h
  /\ \E j \in 1..Len(drops) :
       /\ ghost[j].moved
       /\ drops[j].y - drops[j].length = term.h

(* C18, as stated: with a constant viewport and no I/O or viewport error,
   every drop that is ever in the collection is eventually exhausted and
   replaced. *)
C18_EveryDropEventuallyReplaced == (watch = "on") ~> (watch = "idle")

(* C18 where the program does not panic: a drop is replaced unless the
   program has ended in a panic. *)
C18_ReplacedUnlessPanic == (watch = "on") ~> (watch = "idle" \/ pc = "panic")

====
